---------------------------- MODULE Spec2Model ----------------------------
(***************************************************************************)
(* Model of the derivation layer of the dashboard (dashboard_builder.py)   *)
(* and of the part of the acquisition layer that shapes the deal table     *)
(* (connectors.py, _load_monday_deals).                                    *)
(*                                                                         *)
(* A DataFrame is a sequence of records (one record per row, one field per *)
(* column).  Strings are sequences of one-character strings so that their  *)
(* lexicographic order (the order groupby and sort_values use) and the     *)
(* date parsing / period formatting can be computed.  A float is a record  *)
(* [n, d]: the rational n/d in lowest terms when d > 0, and +inf, -inf or  *)
(* NaN when d = 0 (n = 1, -1, 0).  Amounts are integers, so all sums are   *)
(* exact; floating-point rounding is outside the model.                    *)
(***************************************************************************)
EXTENDS Integers, Sequences, FiniteSets, TLC

VARIABLES
    items,          \* monday.com items as received (connectors.py:64)
    loaded,         \* whether load_data has built the deal table
    deals,          \* the deals DataFrame
    time_entries,   \* the time_entries DataFrame
    invoices,       \* the invoices DataFrame
    targets,        \* dict[str, TeamTargets]
    ncalls,         \* per function: how many times it has been called
    first,          \* per function: what its first call returned
    ret             \* per function: what its latest call returned

vars == <<items, loaded, deals, time_entries, invoices, targets, ncalls, first, ret>>

(***************************************************************************)
(* Bounds of the model.                                                    *)
(***************************************************************************)
MaxRows == 3
MaxCalls == 3

(***************************************************************************)
(* Strings.                                                                *)
(***************************************************************************)
CharCode ==
    [c \in {"-", "/", "0", "1", "2", "3", "4", "5", "6", "7", "8", "9",
            "A", "B", "C", "N", "T", "U", "a", "k", "n", "o", "w"} |->
        CASE c = "-" -> 45 [] c = "/" -> 47
          [] c = "0" -> 48 [] c = "1" -> 49 [] c = "2" -> 50 [] c = "3" -> 51
          [] c = "4" -> 52 [] c = "5" -> 53 [] c = "6" -> 54 [] c = "7" -> 55
          [] c = "8" -> 56 [] c = "9" -> 57
          [] c = "A" -> 65 [] c = "B" -> 66 [] c = "C" -> 67
          [] c = "N" -> 78 [] c = "T" -> 84 [] c = "U" -> 85
          [] c = "a" -> 97 [] c = "k" -> 107 [] c = "n" -> 110
          [] c = "o" -> 111 [] c = "w" -> 119]

\* a < b in Python's str order (code point by code point, a prefix first)
StrLt(a, b) ==
    \E i \in 1..Len(b) :
        /\ \A j \in 1..(i - 1) : j <= Len(a) /\ a[j] = b[j]
        /\ \/ i = Len(a) + 1
           \/ i <= Len(a) /\ CharCode[a[i]] < CharCode[b[i]]

IsDigit(c) == CharCode[c] >= 48 /\ CharCode[c] <= 57

DigitVal(c) == CharCode[c] - 48

DigitChar(v) == CHOOSE c \in DOMAIN CharCode : CharCode[c] = 48 + v

\* str of a non-negative integer, zero-padded to w digits
RECURSIVE ZeroPad(_, _)
ZeroPad(v, w) ==
    IF w = 0 THEN <<>> ELSE Append(ZeroPad(v \div 10, w - 1), DigitChar(v % 10))

\* A cell that may hold a string or be missing (None / NaN)
Str(s) == [na |-> FALSE, v |-> s]
NoStr == [na |-> TRUE, v |-> <<>>]

Unknown == <<"U", "n", "k", "n", "o", "w", "n">>

(***************************************************************************)
(* Sequences.                                                              *)
(***************************************************************************)
RECURSIVE SumSeq(_)
SumSeq(s) == IF s = <<>> THEN 0 ELSE Head(s) + SumSeq(Tail(s))

Column(df, f(_)) == [i \in 1..Len(df) |-> f(df[i])]

Range(s) == {s[i] : i \in 1..Len(s)}

\* The rows of df in ascending order of Lt, rows that compare equal keeping
\* their order in df.
SortBy(df, Lt(_, _)) ==
    LET n == Len(df)
        before(i) == {j \in 1..n : Lt(df[j], df[i]) \/ (~Lt(df[i], df[j]) /\ j < i)}
    IN  [k \in 1..n |-> df[CHOOSE i \in 1..n : Cardinality(before(i)) = k - 1]]

\* The elements of the finite set S as a sequence in ascending order of Lt
SetToSortedSeq(S, Lt(_, _)) ==
    [k \in 1..Cardinality(S) |->
        CHOOSE x \in S : Cardinality({y \in S : Lt(y, x)}) = k - 1]

(***************************************************************************)
(* Floats.                                                                 *)
(***************************************************************************)
RECURSIVE GCD(_, _)
GCD(a, b) == IF b = 0 THEN a ELSE GCD(b, a % b)

Abs(x) == IF x < 0 THEN -x ELSE x

Sign(x) == IF x > 0 THEN 1 ELSE IF x < 0 THEN -1 ELSE 0

NaN == [n |-> 0, d |-> 0]
Inf(sign) == [n |-> sign, d |-> 0]

\* the float n/d, for d # 0
Rat(n, d) ==
    LET g == GCD(Abs(n), Abs(d))
    IN  [n |-> (Sign(d) * n) \div g, d |-> Abs(d) \div g]

Float(i) == [n |-> i, d |-> 1]

IsNaN(x) == x.d = 0 /\ x.n = 0
IsInf(x) == x.d = 0 /\ x.n # 0
IsFinite(x) == x.d > 0

\* a / b on float64 / int64 columns and on Python floats with b # 0:
\* x / 0 is +-inf, 0 / 0 is NaN, nothing is raised
FDiv(a, b) ==
    IF IsNaN(a) \/ IsNaN(b) THEN NaN
    ELSE IF IsInf(b) THEN (IF IsInf(a) THEN NaN ELSE Float(0))
    ELSE IF b.n = 0 THEN (IF a.n = 0 THEN NaN ELSE Inf(Sign(a.n)))
    ELSE IF IsInf(a) THEN Inf(Sign(a.n) * Sign(b.n))
    ELSE Rat(a.n * b.d, a.d * b.n)

FMul(a, b) ==
    IF IsNaN(a) \/ IsNaN(b) THEN NaN
    ELSE IF IsInf(a) \/ IsInf(b)
         THEN (IF a.n = 0 \/ b.n = 0 THEN NaN ELSE Inf(Sign(a.n) * Sign(b.n)))
    ELSE Rat(a.n * b.n, a.d * b.d)

FAdd(a, b) ==
    IF IsNaN(a) \/ IsNaN(b) THEN NaN
    ELSE IF IsInf(a) /\ IsInf(b) THEN (IF a.n = b.n THEN a ELSE NaN)
    ELSE IF IsInf(a) THEN a
    ELSE IF IsInf(b) THEN b
    ELSE Rat(a.n * b.d + b.n * a.d, a.d * b.d)

FLt(a, b) == IsFinite(a) /\ IsFinite(b) /\ a.n * b.d < b.n * a.d

RECURSIVE FSum(_)
FSum(s) == IF s = <<>> THEN Float(0) ELSE FAdd(Head(s), FSum(Tail(s)))

\* Series.fillna(v) on one cell
fillna(x, v) == IF IsNaN(x) THEN v ELSE x

\* Series.replace([pd.NA, pd.NaT], v) on one cell of a float column: only a
\* missing value can match, an infinity never does
replace_na(x, v) == IF IsNaN(x) THEN v ELSE x

(***************************************************************************)
(* Dates.  A date cell is None, a string, a Timestamp or NaT.              *)
(***************************************************************************)
NoDate == [k |-> "none", s |-> <<>>, y |-> 0, m |-> 0, d |-> 0]
DateStr(s) == [k |-> "str", s |-> s, y |-> 0, m |-> 0, d |-> 0]
Timestamp(y, m, d) == [k |-> "ts", s |-> <<>>, y |-> y, m |-> m, d |-> d]
NaT == [k |-> "nat", s |-> <<>>, y |-> 0, m |-> 0, d |-> 0]

IsLeap(y) == (y % 4 = 0 /\ y % 100 # 0) \/ y % 400 = 0

DaysInMonth(y, m) ==
    IF m = 2 THEN (IF IsLeap(y) THEN 29 ELSE 28)
    ELSE IF m \in {4, 6, 9, 11} THEN 30 ELSE 31

RECURSIVE DigitsVal(_)
DigitsVal(s) ==
    IF s = <<>> THEN 0
    ELSE 10 * DigitsVal(SubSeq(s, 1, Len(s) - 1)) + DigitVal(s[Len(s)])

\* parsing of a "YYYY-MM-DD" string; any other string does not parse
ParseISO(s) ==
    IF /\ Len(s) = 10
       /\ s[5] = "-" /\ s[8] = "-"
       /\ \A i \in {1, 2, 3, 4, 6, 7, 9, 10} : IsDigit(s[i])
    THEN LET y == DigitsVal(SubSeq(s, 1, 4))
             m == DigitsVal(SubSeq(s, 6, 7))
             d == DigitsVal(SubSeq(s, 9, 10))
         IN  IF m >= 1 /\ m <= 12 /\ d >= 1 /\ d <= DaysInMonth(y, m)
             THEN Timestamp(y, m, d) ELSE NaT
    ELSE NaT

\* pd.to_datetime(x, errors="coerce") on one cell
to_datetime(x) ==
    CASE x.k = "ts" -> x
      [] x.k = "str" -> ParseISO(x.s)
      [] OTHER -> NaT

\* .dt.to_period("M").astype(str) on one cell: "YYYY-MM", and "NaT" for NaT
period_M_str(t) ==
    IF t.k = "ts" THEN ZeroPad(t.y, 4) \o <<"-">> \o ZeroPad(t.m, 2)
    ELSE <<"N", "a", "T">>

\* .dt.year on one cell: the year, and NaN for NaT
IntCell(v) == [na |-> FALSE, v |-> v]
NoInt == [na |-> TRUE, v |-> 0]

dt_year(t) == IF t.k = "ts" THEN IntCell(t.y) ELSE NoInt

(***************************************************************************)
(* dashboard_builder.py                                                    *)
(***************************************************************************)
\* df[col] = value on one row: the column is added, or overwritten
SetCol(row, col) == col @@ row

\* ---- monthly_billing ----
\* the working frame df after line 18
monthly_df(inv) ==
    [i \in 1..Len(inv) |->
        SetCol(inv[i], [month |-> period_M_str(to_datetime(inv[i].date))])]

\* what the caller's frame holds after the call: df is a copy
monthly_billing_frame(inv) == inv

\* lines 20-21: groupby("month").agg(...); the month strings are never
\* missing ("NaT" is a string), so every row is in a group
groupby_month_agg(df) ==
    LET keys == SetToSortedSeq({df[i].month : i \in 1..Len(df)}, StrLt)
        grp(key) == SelectSeq(df, LAMBDA r : r.month = key)
    IN  [g \in 1..Len(keys) |->
            [month |-> keys[g],
             total_billed |-> SumSeq(Column(grp(keys[g]), LAMBDA r : r.total)),
             amount_collected |-> SumSeq(Column(grp(keys[g]), LAMBDA r : r.amount_paid)),
             outstanding |-> SumSeq(Column(grp(keys[g]), LAMBDA r : r.amount_due))]]

\* a monthly_billing that leaves the rows without a date out of the groups
monthly_billing_dropping_NaT(inv) ==
    SortBy(groupby_month_agg(SelectSeq(monthly_df(inv),
                                       LAMBDA r : r.month # <<"N", "a", "T">>)),
           LAMBDA a, b : StrLt(a.month, b.month))

monthly_billing(inv) ==
    SortBy(groupby_month_agg(monthly_df(inv)), LAMBDA a, b : StrLt(a.month, b.month))

\* ---- yearly_billing ----
yearly_df(inv) ==
    [i \in 1..Len(inv) |->
        SetCol(inv[i], [year |-> dt_year(to_datetime(inv[i].date))])]

yearly_billing_frame(inv) == inv

\* groupby's default dropna=True: a row whose key is NaN is in no group
yearly_keys(df) == {df[i].year.v : i \in {j \in 1..Len(df) : ~df[j].year.na}}

yearly_billing(inv) ==
    LET df == yearly_df(inv)
        keys == SetToSortedSeq(yearly_keys(df), LAMBDA a, b : a < b)
        grp(key) == SelectSeq(df, LAMBDA r : ~r.year.na /\ r.year.v = key)
        grouped ==
            [g \in 1..Len(keys) |->
                [year |-> keys[g],
                 total_billed |-> SumSeq(Column(grp(keys[g]), LAMBDA r : r.total)),
                 amount_collected |-> SumSeq(Column(grp(keys[g]), LAMBDA r : r.amount_paid)),
                 outstanding |-> SumSeq(Column(grp(keys[g]), LAMBDA r : r.amount_due))]]
    IN  SortBy(grouped, LAMBDA a, b : a.year < b.year)

\* ---- time_recorded_per_team ----
team_keys(df) == {df[i].team.v : i \in {j \in 1..Len(df) : ~df[j].team.na}}

time_recorded_per_team(entries) ==
    LET keys == SetToSortedSeq(team_keys(entries), StrLt)
        grp(key) == SelectSeq(entries, LAMBDA r : ~r.team.na /\ r.team.v = key)
        grouped ==
            [g \in 1..Len(keys) |->
                [team |-> keys[g],
                 hours |-> SumSeq(Column(grp(keys[g]), LAMBDA r : r.hours)),
                 billable_amount |-> SumSeq(Column(grp(keys[g]), LAMBDA r : r.billable_amount))]]
    IN  SortBy(grouped, LAMBDA a, b : a.hours > b.hours)

\* ---- deal_profitability ----
profit_margin_pct(profit, deal_value) ==
    FMul(fillna(replace_na(FDiv(Float(profit), Float(deal_value)), Float(0)), Float(0)),
         Float(100))

\* the working frame df after line 47
profitability_df(d) ==
    [i \in 1..Len(d) |->
        LET profit == d[i].deal_value - d[i].cost_to_deliver
        IN  SetCol(d[i], [profit |-> profit,
                          profit_margin_pct |-> profit_margin_pct(profit, d[i].deal_value)])]

\* a deal_profitability that works on the caller's frame instead of a copy
deal_profitability_frame_aliased(d) == profitability_df(d)

\* what the caller's frame holds after the call: df is a copy (line 45)
deal_profitability_frame(d) == d

deal_profitability(d) ==
    SortBy(profitability_df(d), LAMBDA a, b : a.profit > b.profit)

\* ---- team_scorecard ----
ZeroTargets ==
    [revenue_target |-> 0, collection_target |-> 0,
     utilization_target_hours |-> 0, profitability_target_pct |-> 0]

\* targets.get(team, TeamTargets(0, 0, 0, 0))
targets_get(tg, team) == IF team \in DOMAIN tg THEN tg[team] ELSE ZeroTargets

\* lines 58-62: one row per team of the deals, a deal whose team is NaN being
\* in no group
by_team_profit(profitability) ==
    LET keys == SetToSortedSeq(team_keys(profitability), StrLt)
        grp(key) == SelectSeq(profitability, LAMBDA r : ~r.team.na /\ r.team.v = key)
    IN  [g \in 1..Len(keys) |->
            LET revenue == SumSeq(Column(grp(keys[g]), LAMBDA r : r.deal_value))
                profit == SumSeq(Column(grp(keys[g]), LAMBDA r : r.profit))
            IN  [team |-> keys[g], revenue |-> revenue, profit |-> profit,
                 profitability_pct |->
                    FMul(fillna(FDiv(Float(profit), Float(revenue)), Float(0)), Float(100))]]

\* merge(on="team") for the given join keys, then fillna(0)
merge_fillna(left, right, joined) ==
    LET lkeys == {left[i].team : i \in 1..Len(left)}
        rkeys == {right[i].team : i \in 1..Len(right)}
        keys == SetToSortedSeq(joined, StrLt)
        l(key) == CHOOSE r \in Range(left) : r.team = key
        r(key) == CHOOSE r \in Range(right) : r.team = key
    IN  [g \in 1..Len(keys) |->
            LET key == keys[g]
                inl == key \in lkeys
                inr == key \in rkeys
            IN  [team |-> key,
                 revenue |-> fillna(IF inl THEN Float(l(key).revenue) ELSE NaN, Float(0)),
                 profit |-> fillna(IF inl THEN Float(l(key).profit) ELSE NaN, Float(0)),
                 profitability_pct |->
                     fillna(IF inl THEN l(key).profitability_pct ELSE NaN, Float(0)),
                 hours |-> fillna(IF inr THEN Float(r(key).hours) ELSE NaN, Float(0)),
                 billable_amount |->
                     fillna(IF inr THEN Float(r(key).billable_amount) ELSE NaN, Float(0))]]

\* a merge with how="inner"
merge_inner_fillna(left, right) ==
    merge_fillna(left, right,
                 {left[i].team : i \in 1..Len(left)} \cap {right[i].team : i \in 1..Len(right)})

\* line 66: merge(time_team, on="team", how="outer").fillna(0)
merge_outer_fillna(left, right) ==
    merge_fillna(left, right,
                 {left[i].team : i \in 1..Len(left)} \cup {right[i].team : i \in 1..Len(right)})

\* a share without the guard on a revenue sum of 0
collection_share_unguarded(revenue, revenue_sum) == FDiv(revenue, revenue_sum)

\* line 80
collection_share(revenue, revenue_sum) ==
    IF revenue_sum = Float(0) THEN Float(0) ELSE FDiv(revenue, revenue_sum)

\* a ratio without the guard on a target of 0
vs_target_pct_unguarded(actual, target) == FMul(FDiv(actual, Float(target)), Float(100))

\* lines 91-96: 0 if target == 0 else actual / target * 100
vs_target_pct(actual, target) ==
    IF target = 0 THEN Float(0) ELSE FMul(FDiv(actual, Float(target)), Float(100))

\* lines 70-98: the row appended for one row of merged
scorecard_row(row, merged, total_collected, tg) ==
    LET t == targets_get(tg, row.team)
        share == collection_share(row.revenue, FSum(Column(merged, LAMBDA m : m.revenue)))
        collected_team == FMul(total_collected, share)
    IN  [team |-> row.team,
         revenue |-> row.revenue,
         profit |-> row.profit,
         profitability_pct |-> row.profitability_pct,
         hours |-> row.hours,
         collected_estimate |-> collected_team,
         revenue_vs_target_pct |-> vs_target_pct(row.revenue, t.revenue_target),
         collection_vs_target_pct |-> vs_target_pct(collected_team, t.collection_target),
         utilization_vs_target_pct |-> vs_target_pct(row.hours, t.utilization_target_hours),
         profitability_vs_target_pct |->
             vs_target_pct(row.profitability_pct, t.profitability_target_pct)]

\* What a call gave: the rows of the returned frame, or the exception raised
Ok(rows) == [called |-> TRUE, raised |-> "", rows |-> rows]
Raised(exc) == [called |-> TRUE, raised |-> exc, rows |-> <<>>]
NotCalled == [called |-> FALSE, raised |-> "", rows |-> <<>>]

\* line 99: pd.DataFrame([]) has no column, and sorting it by "revenue" raises
\* KeyError
sort_scorecard(rows) ==
    IF rows = <<>> THEN Raised("KeyError")
    ELSE Ok(SortBy(rows, LAMBDA a, b : FLt(b.revenue, a.revenue)))

team_scorecard(dl, te, inv, tg) ==
    LET profitability == deal_profitability(dl)
        time_team == time_recorded_per_team(te)
        merged == merge_outer_fillna(by_team_profit(profitability), time_team)
        total_collected == Float(SumSeq(Column(inv, LAMBDA r : r.amount_paid)))
        rows == [i \in 1..Len(merged) |->
                    scorecard_row(merged[i], merged, total_collected, tg)]
    IN  sort_scorecard(rows)

(***************************************************************************)
(* connectors.py                                                           *)
(***************************************************************************)
\* lines 65-80 of _load_monday_deals.  An item's "team" column is either not
\* among its column_values (has_team = FALSE) or there with a text that may
\* be None.  The frame gets a team column when some item has one, and every
\* cell of it without a text is NaN; only a frame without the column is
\* filled with "Unknown".
load_monday_deals(its) ==
    LET team_in_columns == \E i \in 1..Len(its) : its[i].has_team
    IN  [i \in 1..Len(its) |->
            [team |-> IF team_in_columns
                      THEN (IF its[i].has_team THEN its[i].team ELSE NoStr)
                      ELSE Str(Unknown),
             deal_value |-> its[i].deal_value,
             cost_to_deliver |-> its[i].cost_to_deliver]]

(***************************************************************************)
(* Inputs.                                                                 *)
(***************************************************************************)
TeamA == <<"A">>
TeamB == <<"B">>
TeamC == <<"C">>

Tables(Rows, k) == [1..k -> Rows]

TablesUpTo(Rows, k) == UNION {Tables(Rows, j) : j \in 0..k}

Date1 == <<"2", "0", "2", "4", "-", "0", "1", "-", "1", "5">>
Date2 == <<"2", "0", "2", "4", "-", "0", "2", "-", "0", "3">>
Date3 == <<"2", "0", "2", "5", "-", "0", "1", "-", "2", "0">>
NotADate == <<"n", "/", "a">>

InvoiceDates == {DateStr(Date1), DateStr(Date2), DateStr(Date3), DateStr(NotADate), NoDate}

InvoiceAmounts ==
    {[total |-> 5, amount_paid |-> 3, amount_due |-> 2],
     [total |-> 7, amount_paid |-> 7, amount_due |-> 0]}

InvoiceRows == {[date |-> d] @@ a : d \in InvoiceDates, a \in InvoiceAmounts}

\* deal_value and cost_to_deliver of a deal: nothing sold at no cost, nothing
\* sold at a cost, sold above cost
DealAmounts ==
    {[deal_value |-> 0, cost_to_deliver |-> 0],
     [deal_value |-> 0, cost_to_deliver |-> 1],
     [deal_value |-> 3, cost_to_deliver |-> 1]}

ItemRows ==
    {[has_team |-> TRUE, team |-> t] @@ a : t \in {Str(TeamA), Str(TeamB), NoStr}, a \in DealAmounts}
    \cup
    {[has_team |-> FALSE, team |-> NoStr] @@ a : a \in DealAmounts}

TimeRows ==
    {[team |-> Str(t), hours |-> h, billable_amount |-> 10 * h] :
        t \in {TeamA, TeamC}, h \in {1, 2}}

TargetMaps ==
    {[t \in {} |-> ZeroTargets],
     [t \in {TeamA} |-> ZeroTargets],
     [t \in {TeamA, TeamC} |->
        IF t = TeamA
        THEN [revenue_target |-> 4, collection_target |-> 0,
              utilization_target_hours |-> 3, profitability_target_pct |-> 0]
        ELSE [revenue_target |-> 0, collection_target |-> 4,
              utilization_target_hours |-> 0, profitability_target_pct |-> 40]],
     [t \in {TeamA, TeamB} |->
        IF t = TeamA
        THEN [revenue_target |-> 0, collection_target |-> 4,
              utilization_target_hours |-> 0, profitability_target_pct |-> 40]
        ELSE [revenue_target |-> 4, collection_target |-> 4,
              utilization_target_hours |-> 3, profitability_target_pct |-> 40]]}

Functions ==
    {"monthly_billing", "yearly_billing", "time_recorded_per_team",
     "deal_profitability", "team_scorecard"}

(***************************************************************************)
(* Operations.                                                             *)
(***************************************************************************)
TotalCalls == SumSeq([i \in 1..5 |->
    ncalls[<<"monthly_billing", "yearly_billing", "time_recorded_per_team",
             "deal_profitability", "team_scorecard">>[i]]])

Record(f, r) ==
    /\ ncalls' = [ncalls EXCEPT ![f] = @ + 1]
    /\ first' = IF ncalls[f] = 0 THEN [first EXCEPT ![f] = r] ELSE first
    /\ ret' = [ret EXCEPT ![f] = r]

NoCalls ==
    /\ ncalls = [f \in Functions |-> 0]
    /\ first = [f \in Functions |-> NotCalled]
    /\ ret = [f \in Functions |-> NotCalled]

\* connectors.py load_data, line 33, as app.py line 14 calls it
LoadData ==
    /\ ~loaded
    /\ deals' = load_monday_deals(items)
    /\ loaded' = TRUE
    /\ UNCHANGED <<items, time_entries, invoices, targets, ncalls, first, ret>>

CallMonthlyBilling ==
    /\ loaded /\ TotalCalls < MaxCalls
    /\ Record("monthly_billing", Ok(monthly_billing(invoices)))
    /\ invoices' = monthly_billing_frame(invoices)
    /\ UNCHANGED <<items, loaded, deals, time_entries, targets>>

CallYearlyBilling ==
    /\ loaded /\ TotalCalls < MaxCalls
    /\ Record("yearly_billing", Ok(yearly_billing(invoices)))
    /\ invoices' = yearly_billing_frame(invoices)
    /\ UNCHANGED <<items, loaded, deals, time_entries, targets>>

CallTimeRecordedPerTeam ==
    /\ loaded /\ TotalCalls < MaxCalls
    /\ Record("time_recorded_per_team", Ok(time_recorded_per_team(time_entries)))
    /\ UNCHANGED <<items, loaded, deals, time_entries, invoices, targets>>

CallDealProfitability ==
    /\ loaded /\ TotalCalls < MaxCalls
    /\ Record("deal_profitability", Ok(deal_profitability(deals)))
    /\ deals' = deal_profitability_frame(deals)
    /\ UNCHANGED <<items, loaded, time_entries, invoices, targets>>

\* team_scorecard's own call of deal_profitability (line 57) leaves deals as
\* that function leaves it
CallTeamScorecard ==
    /\ loaded /\ TotalCalls < MaxCalls
    /\ Record("team_scorecard", team_scorecard(deals, time_entries, invoices, targets))
    /\ deals' = deal_profitability_frame(deals)
    /\ UNCHANGED <<items, loaded, time_entries, invoices, targets>>

(***************************************************************************)
(* Spec: the five aggregators called in any order, any number of times, on *)
(* the same tables.                                                        *)
(***************************************************************************)
PureDealRows ==
    {[team |-> t, deal_value |-> v, cost_to_deliver |-> 1] :
        t \in {Str(TeamA), NoStr}, v \in {0, 3}}

PureTimeRows == {r \in TimeRows : r.hours = 1}

PureInvoiceRows ==
    {r \in InvoiceRows : r.date \in {DateStr(Date1), DateStr(NotADate)} /\ r.total = 5}

Init ==
    /\ items = <<>>
    /\ loaded = TRUE
    /\ \E d \in 0..MaxRows : \E t \in 0..(MaxRows - d) : \E i \in 0..(MaxRows - d - t) :
        /\ deals \in Tables(PureDealRows, d)
        /\ time_entries \in Tables(PureTimeRows, t)
        /\ invoices \in Tables(PureInvoiceRows, i)
    /\ targets \in {m \in TargetMaps : DOMAIN m \in {{}, {TeamA, TeamC}}}
    /\ NoCalls

Next ==
    \/ CallMonthlyBilling
    \/ CallYearlyBilling
    \/ CallTimeRecordedPerTeam
    \/ CallDealProfitability
    \/ CallTeamScorecard

Spec == Init /\ [][Next]_vars

(***************************************************************************)
(* SpecBilling: the two billing aggregators on every invoice table.        *)
(***************************************************************************)
InitBilling ==
    /\ items = <<>>
    /\ loaded = TRUE
    /\ deals = <<>>
    /\ time_entries = <<>>
    /\ invoices \in TablesUpTo(InvoiceRows, MaxRows)
    /\ targets = [t \in {} |-> ZeroTargets]
    /\ NoCalls

NextBilling ==
    \/ ncalls["monthly_billing"] = 0 /\ CallMonthlyBilling
    \/ ncalls["yearly_billing"] = 0 /\ CallYearlyBilling

SpecBilling == InitBilling /\ [][NextBilling]_vars

(***************************************************************************)
(* SpecScore: app.py's path to the scorecard: load_data (line 14), then    *)
(* deal_profitability (line 39), then team_scorecard (line 40).  The deal  *)
(* table is built from monday.com items, or is a table with no row.        *)
(***************************************************************************)
ScoreInvoiceRows ==
    {[date |-> DateStr(Date1), total |-> 3, amount_paid |-> p, amount_due |-> 3 - p] :
        p \in {0, 3}}

InitScore ==
    /\ \E d \in 0..MaxRows : \E t \in 0..(MaxRows - d) : \E i \in 0..(MaxRows - d - t) :
        /\ items \in Tables(ItemRows, d)
        /\ loaded = (d = 0)
        /\ time_entries \in Tables(TimeRows, t)
        /\ invoices \in Tables(ScoreInvoiceRows, i)
    /\ deals = <<>>
    /\ targets \in TargetMaps
    /\ NoCalls

NextScore ==
    \/ LoadData
    \/ ncalls["deal_profitability"] = 0 /\ CallDealProfitability
    \/ ncalls["deal_profitability"] = 1 /\ ncalls["team_scorecard"] = 0 /\ CallTeamScorecard

SpecScore == InitScore /\ [][NextScore]_vars

(***************************************************************************)
(* Properties.                                                             *)
(***************************************************************************)
NaTStr == <<"N", "a", "T">>

Undated(inv) == {i \in 1..Len(inv) : to_datetime(inv[i].date) = NaT}

InvoiceTotals(inv) ==
    <<SumSeq(Column(inv, LAMBDA r : r.total)),
      SumSeq(Column(inv, LAMBDA r : r.amount_paid)),
      SumSeq(Column(inv, LAMBDA r : r.amount_due))>>

BillingTotals(rows) ==
    <<SumSeq(Column(rows, LAMBDA r : r.total_billed)),
      SumSeq(Column(rows, LAMBDA r : r.amount_collected)),
      SumSeq(Column(rows, LAMBDA r : r.outstanding))>>

\* C1: the rows monthly_billing returns sum to the invoices' total, amount_paid
\* and amount_due, whatever the dates; when some invoice has no parseable date
\* exactly one row, the one of month "NaT", stands for the undated invoices.
C1_MonthlyConservation ==
    ret["monthly_billing"].called =>
        LET rows == ret["monthly_billing"].rows
        IN  /\ BillingTotals(rows) = InvoiceTotals(invoices)
            /\ Cardinality({k \in 1..Len(rows) : rows[k].month = NaTStr})
                   = (IF Undated(invoices) = {} THEN 0 ELSE 1)

\* monthly_billing has run on a table with dated and undated invoices
C1_Witness ==
    /\ ret["monthly_billing"].called
    /\ Undated(invoices) # {}
    /\ Undated(invoices) # 1..Len(invoices)
    /\ Len(ret["monthly_billing"].rows) >= 2

\* C2: the rows yearly_billing returns sum to the invoices' total, amount_paid
\* and amount_due, whatever the dates (an undated invoice is in a sentinel
\* year group).
C2_YearlyConservation ==
    ret["yearly_billing"].called =>
        BillingTotals(ret["yearly_billing"].rows) = InvoiceTotals(invoices)

\* C3: every row deal_profitability returns has profit_margin_pct 0 when
\* deal_value is 0, and (deal_value - cost_to_deliver) / deal_value * 100 when
\* deal_value > 0.
C3_ZeroRevenueMargin ==
    ret["deal_profitability"].called =>
        \A r \in Range(ret["deal_profitability"].rows) :
            /\ r.deal_value = 0 => r.profit_margin_pct = Float(0)
            /\ r.deal_value > 0 =>
                 r.profit_margin_pct
                     = Rat((r.deal_value - r.cost_to_deliver) * 100, r.deal_value)

TeamsOf(df) == {df[i].team.v : i \in {j \in 1..Len(df) : ~df[j].team.na}}

ScoreRows == ret["team_scorecard"].rows

\* C4: the teams of the scorecard rows are the teams of the deals together with
\* the teams of the time entries, each in exactly one row.
C4_TeamUnion ==
    ret["team_scorecard"].called =>
        /\ {ScoreRows[k].team : k \in 1..Len(ScoreRows)}
               = TeamsOf(deals) \cup TeamsOf(time_entries)
        /\ \A j, k \in 1..Len(ScoreRows) : ScoreRows[j].team = ScoreRows[k].team => j = k

\* team_scorecard has returned rows for a team with deals only, a team with
\* time entries only and a team with both
C4_Witness ==
    /\ ret["team_scorecard"].called
    /\ TeamsOf(deals) \ TeamsOf(time_entries) # {}
    /\ TeamsOf(time_entries) \ TeamsOf(deals) # {}
    /\ Len(ScoreRows) >= 2

TotalCollected == Float(SumSeq(Column(invoices, LAMBDA r : r.amount_paid)))

RevenueSum == FSum(Column(ScoreRows, LAMBDA r : r.revenue))

\* C5: collected_estimate * (sum of revenue) = total_collected * revenue in
\* every row; the estimates sum to total_collected when the revenue sum is
\* positive and are all 0 (no NaN, no infinity) when it is 0.
C5_CollectedEstimate ==
    ret["team_scorecard"].called =>
        /\ \A r \in Range(ScoreRows) :
              /\ IsFinite(r.collected_estimate)
              /\ FMul(r.collected_estimate, RevenueSum) = FMul(TotalCollected, r.revenue)
              /\ RevenueSum = Float(0) => r.collected_estimate = Float(0)
        /\ FLt(Float(0), RevenueSum) =>
              FSum(Column(ScoreRows, LAMBDA r : r.collected_estimate)) = TotalCollected

\* team_scorecard has shared a positive amount collected between two teams
\* with revenue
C5_Witness ==
    /\ ret["team_scorecard"].called
    /\ FLt(Float(0), TotalCollected)
    /\ \E j, k \in 1..Len(ScoreRows) :
          /\ j # k
          /\ FLt(Float(0), ScoreRows[j].revenue)
          /\ FLt(Float(0), ScoreRows[k].revenue)
          /\ FLt(Float(0), ScoreRows[j].collected_estimate)

TargetsOf(team) == IF team \in DOMAIN targets THEN targets[team] ELSE ZeroTargets

\* field = actual / target * 100, stated as field * target = actual * 100
RatioOf(field, actual, target) ==
    IF target = 0 THEN field = Float(0)
    ELSE FMul(field, Float(target)) = FMul(actual, Float(100))

\* C6: in every scorecard row each *_vs_target_pct is 0 when the team's target
\* is 0 or the team has no targets, and actual / target * 100 otherwise.
C6_TargetRatios ==
    ret["team_scorecard"].called =>
        \A r \in Range(ScoreRows) :
            LET t == TargetsOf(r.team)
            IN  /\ RatioOf(r.revenue_vs_target_pct, r.revenue, t.revenue_target)
                /\ RatioOf(r.collection_vs_target_pct, r.collected_estimate,
                           t.collection_target)
                /\ RatioOf(r.utilization_vs_target_pct, r.hours,
                           t.utilization_target_hours)
                /\ RatioOf(r.profitability_vs_target_pct, r.profitability_pct,
                           t.profitability_target_pct)

\* team_scorecard has returned a row of a team whose revenue target is 0
\* against a revenue, and whose collection ratio is not 0, and a row of a team
\* without targets
C6_Witness ==
    /\ ret["team_scorecard"].called
    /\ \E r \in Range(ScoreRows) :
          /\ r.team \in DOMAIN targets
          /\ targets[r.team].revenue_target = 0
          /\ r.revenue # Float(0)
          /\ r.collection_vs_target_pct # Float(0)
    /\ \E r \in Range(ScoreRows) : r.team \notin DOMAIN targets /\ r.hours # Float(0)

\* C7: a call of an aggregator leaves the tables and the targets as they were,
\* and a function called before returns what its first call returned.
C7_Pure ==
    [][/\ deals' = deals
       /\ time_entries' = time_entries
       /\ invoices' = invoices
       /\ targets' = targets
       /\ \A f \in Functions : first[f].called => ret'[f] = first[f]]_vars

\* deal_profitability and team_scorecard have both run on a table with deals,
\* one of them twice
C7_Witness ==
    /\ deals # <<>>
    /\ ncalls["deal_profitability"] >= 1
    /\ ncalls["team_scorecard"] >= 1
    /\ ncalls["deal_profitability"] + ncalls["team_scorecard"] >= 3

AbsentTeam(its) == {i \in 1..Len(its) : ~its[i].has_team \/ its[i].team.na}

\* C8: when a deal has no team, the scorecard team_scorecard returns has a row
\* of team "Unknown" and its revenues sum to the deal_value of all deals.
C8_AbsentTeamIsUnknown ==
    (ret["team_scorecard"].called /\ ret["team_scorecard"].raised = ""
        /\ AbsentTeam(items) # {}) =>
        /\ \E r \in Range(ScoreRows) : r.team = Unknown
        /\ RevenueSum = Float(SumSeq(Column(deals, LAMBDA r : r.deal_value)))

\* C9: a scorecard row with revenue 0 has profitability_pct 0 and a finite
\* profitability_vs_target_pct; a row with revenue > 0 has
\* profitability_pct = profit / revenue * 100.
C9_ZeroRevenueProfitability ==
    ret["team_scorecard"].called =>
        \A r \in Range(ScoreRows) :
            /\ r.revenue = Float(0) =>
                 /\ r.profitability_pct = Float(0)
                 /\ IsFinite(r.profitability_vs_target_pct)
            /\ FLt(Float(0), r.revenue) =>
                 FMul(r.profitability_pct, r.revenue) = FMul(r.profit, Float(100))

\* C10: team_scorecard raises nothing, returns no row when neither table has a
\* team, and returns its rows in descending order of revenue.
C10_CompletesSorted ==
    ret["team_scorecard"].called =>
        /\ ret["team_scorecard"].raised = ""
        /\ \A k \in 1..(Len(ScoreRows) - 1) :
              ~FLt(ScoreRows[k].revenue, ScoreRows[k + 1].revenue)

=============================================================================
